---- MODULE Spec2Model ----
(***************************************************************************)
(* Cook-plan generation and re-prediction engine of smokering              *)
(* (apps/api/src/services/cookPlanner.ts with the lookup tables of         *)
(* packages/shared/src/constants/index.ts).                                *)
(*                                                                         *)
(* Numbers.  The source computes in IEEE doubles; the decimal literals of  *)
(* the lookup tables (0.90, 1.12, 0.4, ...) are modelled as exact          *)
(* rationals <<numerator, denominator>> in lowest terms, and Math.round    *)
(* as floor(x + 1/2).  The exact value and the double can only differ      *)
(* where an exact value falls on a tie of Math.round or of a comparison;   *)
(* in the Plan Generator they agree for every weight that is a multiple    *)
(* of 0.1 lb.  Timestamps are Date.getTime() values, integers in           *)
(* milliseconds.                                                           *)
(***************************************************************************)
EXTENDS Integers, Sequences, FiniteSets, TLC

VARIABLES pc, input, plan, prevInput, prevPlan, reading, prediction, tables,
          offline, cookLog, equipment

\* the state of the planning engine and of a session that uses it
engineVars == <<pc, input, plan, prevInput, prevPlan, reading, prediction, tables>>

\* the state of the services around the engine: the offline service of the
\* mobile app, the temperature log of a cook, the equipment of a user
appVars == <<offline, cookLog, equipment>>

vars == <<pc, input, plan, prevInput, prevPlan, reading, prediction, tables,
          offline, cookLog, equipment>>

(***************************************************************************)
(* Exact rational arithmetic                                               *)
(***************************************************************************)
Abs(x) == IF x < 0 THEN -x ELSE x

RECURSIVE GCD(_, _)
GCD(a, b) == IF b = 0 THEN Abs(a) ELSE GCD(b, a % b)

\* n/d in lowest terms with a positive denominator
Rat(n, d) ==
  LET g == GCD(Abs(n), Abs(d))
      s == IF d < 0 THEN -1 ELSE 1
  IN  <<s * (n \div g), s * (d \div g)>>

RInt(n) == <<n, 1>>

RMul(x, y) ==
  LET g1 == GCD(Abs(x[1]), y[2])
      g2 == GCD(Abs(y[1]), x[2])
  IN  <<(x[1] \div g1) * (y[1] \div g2), (x[2] \div g2) * (y[2] \div g1)>>

RAdd(x, y) ==
  LET g == GCD(x[2], y[2])
  IN  Rat(x[1] * (y[2] \div g) + y[1] * (x[2] \div g), (x[2] \div g) * y[2])

RNeg(x) == <<-x[1], x[2]>>

RSub(x, y) == RAdd(x, RNeg(y))

\* x / y for y # 0
RDiv(x, y) ==
  IF y[1] > 0 THEN RMul(x, <<y[2], y[1]>>) ELSE RMul(x, <<-y[2], -y[1]>>)

RLt(x, y) == RSub(x, y)[1] < 0

RLeq(x, y) == RSub(x, y)[1] <= 0

RAbs(x) == <<Abs(x[1]), x[2]>>

RMax(x, y) == IF RLt(x, y) THEN y ELSE x

\* Math.round: the integer nearest to x, halves rounded towards +infinity
MathRound(x) == (2 * x[1] + x[2]) \div (2 * x[2])

MathMax(a, b) == IF a >= b THEN a ELSE b

MathMin(a, b) == IF a <= b THEN a ELSE b

(***************************************************************************)
(* Enumerations (packages/shared/src/types) and lookup tables              *)
(***************************************************************************)
MeatCut == {"BRISKET", "PORK_SHOULDER", "SPARE_RIBS", "BABY_BACK_RIBS", "BEEF_RIBS"}

SmokerType == {"PELLET", "OFFSET", "KAMADO", "ELECTRIC", "KETTLE"}

WrapMethod == {"NONE", "BUTCHER_PAPER", "FOIL"}

BASE_COOK_TIMES ==
  [c \in MeatCut |->
     CASE c = "BRISKET"        -> [min |-> 60,  max |-> 90,  perPound |-> TRUE]
       [] c = "PORK_SHOULDER"  -> [min |-> 90,  max |-> 120, perPound |-> TRUE]
       [] c = "SPARE_RIBS"     -> [min |-> 300, max |-> 360, perPound |-> FALSE]
       [] c = "BABY_BACK_RIBS" -> [min |-> 240, max |-> 300, perPound |-> FALSE]
       [] c = "BEEF_RIBS"      -> [min |-> 360, max |-> 480, perPound |-> FALSE]]

DEFAULT_TARGET_TEMPS ==
  [c \in MeatCut |->
     CASE c = "BRISKET"        -> 203
       [] c = "PORK_SHOULDER"  -> 205
       [] c = "SPARE_RIBS"     -> 195
       [] c = "BABY_BACK_RIBS" -> 195
       [] c = "BEEF_RIBS"      -> 203]

SMOKER_MULTIPLIERS ==
  [s \in SmokerType |->
     CASE s = "PELLET"   -> [multiplier |-> Rat(90, 100),  varianceMultiplier |-> Rat(8, 10)]
       [] s = "OFFSET"   -> [multiplier |-> Rat(115, 100), varianceMultiplier |-> Rat(13, 10)]
       [] s = "KAMADO"   -> [multiplier |-> Rat(95, 100),  varianceMultiplier |-> Rat(85, 100)]
       [] s = "ELECTRIC" -> [multiplier |-> Rat(10, 10),   varianceMultiplier |-> Rat(10, 10)]
       [] s = "KETTLE"   -> [multiplier |-> Rat(110, 100), varianceMultiplier |-> Rat(12, 10)]]

STALL_CONFIG ==
  [startTempF          |-> 150,
   endTempF            |-> 170,
   durationMinutes     |-> [min |-> 60, max |-> 240],
   wrapReductionFactor |-> Rat(5, 10),
   affectedCuts        |-> {"BRISKET", "PORK_SHOULDER"}]

ENVIRONMENTAL_THRESHOLDS ==
  [coldAmbient |-> 40, hotAmbient |-> 90, highAltitude |-> 5000]

ENVIRONMENTAL_MULTIPLIERS ==
  [coldAmbient |-> Rat(112, 100), hotAmbient |-> Rat(92, 100), highAltitude |-> Rat(110, 100)]

PHASE_NAMES ==
  [PREP          |-> "Prep & Trim",
   PREHEAT       |-> "Preheat Smoker",
   SMOKE_1       |-> "Smoke Phase 1",
   STALL         |-> "Stall Window",
   WRAP_DECISION |-> "Wrap Decision",
   SMOKE_2       |-> "Smoke Phase 2",
   REST          |-> "Rest",
   SERVE         |-> "Serve Window"]

PhaseNameSet == {PHASE_NAMES[k] : k \in DOMAIN PHASE_NAMES}

PHASE_CONFIDENCE ==
  [n \in PhaseNameSet |->
     CASE n = "Prep & Trim"    -> "HIGH"
       [] n = "Preheat Smoker" -> "HIGH"
       [] n = "Smoke Phase 1"  -> "MEDIUM"
       [] n = "Stall Window"   -> "LOW"
       [] n = "Wrap Decision"  -> "MEDIUM"
       [] n = "Smoke Phase 2"  -> "MEDIUM"
       [] n = "Rest"           -> "HIGH"
       [] n = "Serve Window"   -> "HIGH"]

PREP_TIME_MINUTES == [min |-> 30, max |-> 45]

PREHEAT_TIME_MINUTES == [min |-> 15, max |-> 30]

REST_TIME_MINUTES ==
  [c \in MeatCut |->
     CASE c = "BRISKET"        -> [min |-> 60, max |-> 120]
       [] c = "PORK_SHOULDER"  -> [min |-> 45, max |-> 90]
       [] c = "SPARE_RIBS"     -> [min |-> 10, max |-> 20]
       [] c = "BABY_BACK_RIBS" -> [min |-> 10, max |-> 15]
       [] c = "BEEF_RIBS"      -> [min |-> 30, max |-> 60]]

CONFIDENCE_THRESHOLDS == [high |-> 70, medium |-> 40]

\* validation ranges enforced by the calling layer (zod schemas of routes/cooks.ts)
VALIDATION ==
  [weight       |-> [min |-> Rat(5, 10), max |-> RInt(30)],
   smokerTemp   |-> [min |-> 175, max |-> 400],
   internalTemp |-> [min |-> 32,  max |-> 220],
   ambientTemp  |-> [min |-> -20, max |-> 120],
   altitude     |-> [min |-> 0,   max |-> 15000]]

\* createCookSchema.targetTempF / updateCookSchema.finishTempF
targetTempFRange == [min |-> 150, max |-> 220]

\* An optional number is <<v>> when supplied and <<>> (JavaScript undefined)
\* when it was not.
Undefined == <<>>

Some(v) == <<v>>

(***************************************************************************)
(* Plan Generator                                                          *)
(***************************************************************************)
\* mutant: the thresholds themselves count as cold, hot and high
getEnvironmentalMultiplier_Inclusive(ambientTempF, altitude) ==
  LET m0 == RInt(1)
      m1 == IF ambientTempF # Undefined
              THEN IF ambientTempF[1] <= ENVIRONMENTAL_THRESHOLDS.coldAmbient
                     THEN RMul(m0, ENVIRONMENTAL_MULTIPLIERS.coldAmbient)
                     ELSE IF ambientTempF[1] >= ENVIRONMENTAL_THRESHOLDS.hotAmbient
                            THEN RMul(m0, ENVIRONMENTAL_MULTIPLIERS.hotAmbient)
                            ELSE m0
              ELSE m0
  IN  IF altitude # Undefined /\ altitude[1] >= ENVIRONMENTAL_THRESHOLDS.highAltitude
        THEN RMul(m1, ENVIRONMENTAL_MULTIPLIERS.highAltitude)
        ELSE m1

getEnvironmentalMultiplier(ambientTempF, altitude) ==
  LET m0 == RInt(1)
      m1 == IF ambientTempF # Undefined
              THEN IF ambientTempF[1] < ENVIRONMENTAL_THRESHOLDS.coldAmbient
                     THEN RMul(m0, ENVIRONMENTAL_MULTIPLIERS.coldAmbient)
                     ELSE IF ambientTempF[1] > ENVIRONMENTAL_THRESHOLDS.hotAmbient
                            THEN RMul(m0, ENVIRONMENTAL_MULTIPLIERS.hotAmbient)
                            ELSE m0
              ELSE m0
  IN  IF altitude # Undefined /\ altitude[1] > ENVIRONMENTAL_THRESHOLDS.highAltitude
        THEN RMul(m1, ENVIRONMENTAL_MULTIPLIERS.highAltitude)
        ELSE m1

hasStall(meatCut) == meatCut \in STALL_CONFIG.affectedCuts

\* mutant: the per-pound rate is divided by the weight
BaseRange_Divide(baseTime, weightLbs) ==
  IF baseTime.perPound
    THEN [min |-> RDiv(RInt(baseTime.min), weightLbs),
          max |-> RDiv(RInt(baseTime.max), weightLbs)]
    ELSE [min |-> RInt(baseTime.min), max |-> RInt(baseTime.max)]

\* lines 71-77: the base range, per pound or flat
BaseRange(baseTime, weightLbs) ==
  IF baseTime.perPound
    THEN [min |-> RMul(RInt(baseTime.min), weightLbs),
          max |-> RMul(RInt(baseTime.max), weightLbs)]
    ELSE [min |-> RInt(baseTime.min), max |-> RInt(baseTime.max)]

\* mutant: the halved variance is added below and subtracted above
ApplyVariance_Crossed(minTime, maxTime, varianceMultiplier) ==
  LET variance         == RSub(maxTime, minTime)
      adjustedVariance == RMul(variance, varianceMultiplier)
      midpoint         == RDiv(RAdd(minTime, maxTime), RInt(2))
  IN  [min |-> RAdd(midpoint, RDiv(adjustedVariance, RInt(2))),
       max |-> RSub(midpoint, RDiv(adjustedVariance, RInt(2)))]

\* lines 83-88: widen or narrow the range around its midpoint
ApplyVariance(minTime, maxTime, varianceMultiplier) ==
  LET variance         == RSub(maxTime, minTime)
      adjustedVariance == RMul(variance, varianceMultiplier)
      midpoint         == RDiv(RAdd(minTime, maxTime), RInt(2))
  IN  [min |-> RSub(midpoint, RDiv(adjustedVariance, RInt(2))),
       max |-> RAdd(midpoint, RDiv(adjustedVariance, RInt(2)))]

calculateBaseCookTime(meatCut, weightLbs, smokerType, wrapMethod, ambientTempF, altitude) ==
  LET baseTime      == BASE_COOK_TIMES[meatCut]
      smokerFactor  == SMOKER_MULTIPLIERS[smokerType]
      envMultiplier == getEnvironmentalMultiplier(ambientTempF, altitude)
      base          == BaseRange(baseTime, weightLbs)
      min1          == RMul(base.min, smokerFactor.multiplier)
      max1          == RMul(base.max, smokerFactor.multiplier)
      adj           == ApplyVariance(min1, max1, smokerFactor.varianceMultiplier)
      min3          == RMul(adj.min, envMultiplier)
      max3          == RMul(adj.max, envMultiplier)
  IN  [min |-> MathRound(min3), max |-> MathRound(max3)]

\* the null returned for a cut without a stall
Null == <<>>

\* mutant: wrapping does not shorten the stall
calculateStallDuration_NoReduction(meatCut, wrapMethod) ==
  IF ~hasStall(meatCut)
    THEN Null
    ELSE [min |-> STALL_CONFIG.durationMinutes.min,
          max |-> STALL_CONFIG.durationMinutes.max]

calculateStallDuration(meatCut, wrapMethod) ==
  IF ~hasStall(meatCut)
    THEN Null
    ELSE LET d  == STALL_CONFIG.durationMinutes
             mn == IF wrapMethod # "NONE"
                     THEN RMul(RInt(d.min), STALL_CONFIG.wrapReductionFactor)
                     ELSE RInt(d.min)
             mx == IF wrapMethod # "NONE"
                     THEN RMul(RInt(d.max), STALL_CONFIG.wrapReductionFactor)
                     ELSE RInt(d.max)
         IN  [min |-> MathRound(mn), max |-> MathRound(mx)]

\* mutant: the upper clamp is missing
ClampConfidence_FloorOnly(score) == MathMax(20, score)

\* line 142: Math.max(20, Math.min(100, score))
ClampConfidence(score) == MathMax(20, MathMin(100, score))

\* phases.filter(p => p.confidence === level).length
CountConfidence(phases, level) ==
  Cardinality({i \in 1..Len(phases) : phases[i].confidence = level})

\* mutant: the smoker term weighs twice as much
calculateOverallConfidence_SteeperSmoker(phases, smokerType) ==
  LET smokerFactor          == SMOKER_MULTIPLIERS[smokerType]
      base0                 == RSub(RInt(100),
                                    RMul(RSub(smokerFactor.varianceMultiplier, RInt(1)), RInt(100)))
      lowConfidenceCount    == CountConfidence(phases, "LOW")
      base1                 == RSub(base0, RInt(lowConfidenceCount * 10))
      mediumConfidenceCount == CountConfidence(phases, "MEDIUM")
      base2                 == RSub(base1, RInt(mediumConfidenceCount * 5))
  IN  ClampConfidence(MathRound(base2))

calculateOverallConfidence(phases, smokerType) ==
  LET smokerFactor          == SMOKER_MULTIPLIERS[smokerType]
      base0                 == RSub(RInt(100),
                                    RMul(RSub(smokerFactor.varianceMultiplier, RInt(1)), RInt(50)))
      lowConfidenceCount    == CountConfidence(phases, "LOW")
      base1                 == RSub(base0, RInt(lowConfidenceCount * 10))
      mediumConfidenceCount == CountConfidence(phases, "MEDIUM")
      base2                 == RSub(base1, RInt(mediumConfidenceCount * 5))
  IN  ClampConfidence(MathRound(base2))

\* phases.unshift(p): p becomes the first element
Unshift(phases, p) == <<p>> \o phases

\* new Date(t.getTime() - minutes * 60000)
MinutesBefore(t, minutes) == t - minutes * 60000

\* mutant: Rest is scheduled over the minimum rest time
RestPhase_MinLength(restTime, serveWindowStart) ==
  LET restEnd   == serveWindowStart
      restStart == MinutesBefore(restEnd, restTime.min)
  IN  [name          |-> PHASE_NAMES.REST,
       startTime     |-> restStart,
       endTime       |-> restEnd,
       durationRange |-> restTime,
       confidence    |-> PHASE_CONFIDENCE[PHASE_NAMES.REST],
       notes         |-> <<"Rest for", restTime.min, restTime.max, "minutes minimum">>]

\* lines 186-197
RestPhase(restTime, serveWindowStart) ==
  LET restEnd   == serveWindowStart
      restStart == MinutesBefore(restEnd, restTime.max)
  IN  [name          |-> PHASE_NAMES.REST,
       startTime     |-> restStart,
       endTime       |-> restEnd,
       durationRange |-> restTime,
       confidence    |-> PHASE_CONFIDENCE[PHASE_NAMES.REST],
       notes         |-> <<"Rest for", restTime.min, restTime.max, "minutes minimum">>]

\* mutant: the cook time is split 35% / 35%
SmokeDurations_EvenSplit(hasPrimaryStall, stallDuration, cookTimeRange) ==
  IF hasPrimaryStall /\ stallDuration # Null
    THEN [smoke1 |-> [min |-> MathRound(RMul(RInt(cookTimeRange.min), Rat(35, 100))),
                      max |-> MathRound(RMul(RInt(cookTimeRange.max), Rat(35, 100)))],
          smoke2 |-> [min |-> MathRound(RMul(RInt(cookTimeRange.min), Rat(35, 100))),
                      max |-> MathRound(RMul(RInt(cookTimeRange.max), Rat(35, 100)))]]
    ELSE [smoke1 |-> cookTimeRange,
          smoke2 |-> [min |-> 0, max |-> 0]]

\* mutant: the cook time is never split around the stall
SmokeDurations_NoSplit(hasPrimaryStall, stallDuration, cookTimeRange) ==
  [smoke1 |-> cookTimeRange,
   smoke2 |-> [min |-> 0, max |-> 0]]

\* mutant: the cook time is split whether or not the cut stalls
SmokeDurations_AlwaysSplit(hasPrimaryStall, stallDuration, cookTimeRange) ==
  [smoke1 |-> [min |-> MathRound(RMul(RInt(cookTimeRange.min), Rat(4, 10))),
               max |-> MathRound(RMul(RInt(cookTimeRange.max), Rat(4, 10)))],
   smoke2 |-> [min |-> MathRound(RMul(RInt(cookTimeRange.min), Rat(3, 10))),
               max |-> MathRound(RMul(RInt(cookTimeRange.max), Rat(3, 10)))]]

\* lines 209-226: <<smoke1Duration, smoke2Duration>>
SmokeDurations(hasPrimaryStall, stallDuration, cookTimeRange) ==
  IF hasPrimaryStall /\ stallDuration # Null
    THEN [smoke1 |-> [min |-> MathRound(RMul(RInt(cookTimeRange.min), Rat(4, 10))),
                      max |-> MathRound(RMul(RInt(cookTimeRange.max), Rat(4, 10)))],
          smoke2 |-> [min |-> MathRound(RMul(RInt(cookTimeRange.min), Rat(3, 10))),
                      max |-> MathRound(RMul(RInt(cookTimeRange.max), Rat(3, 10)))]]
    ELSE [smoke1 |-> cookTimeRange,
          smoke2 |-> [min |-> 0, max |-> 0]]

\* lines 233-243: Smoke Phase 2 is put in front of the list
WithSmoke2(phases, smoke2Duration, smoke2Start, smoke2End, wrapMethod) ==
  Unshift(phases,
    [name          |-> PHASE_NAMES.SMOKE_2,
     startTime     |-> smoke2Start,
     endTime       |-> smoke2End,
     durationRange |-> smoke2Duration,
     confidence    |-> PHASE_CONFIDENCE[PHASE_NAMES.SMOKE_2],
     notes         |-> IF wrapMethod # "NONE"
                         THEN <<"Wrapped in", wrapMethod>>
                         ELSE <<"Unwrapped cook continues">>])

\* mutant: the Wrap Decision marker is added whatever the wrap method
WithWrapDecision_Always(phases, wrapMethod, smoke2Start) ==
  Unshift(phases,
    [name          |-> PHASE_NAMES.WRAP_DECISION,
     startTime     |-> smoke2Start,
     endTime       |-> smoke2Start,
     durationRange |-> [min |-> 0, max |-> 0],
     confidence    |-> PHASE_CONFIDENCE[PHASE_NAMES.WRAP_DECISION],
     notes         |-> <<"Wrap when internal temp reaches",
                         STALL_CONFIG.startTempF, STALL_CONFIG.endTempF>>])

\* lines 245-255: the instantaneous Wrap Decision marker, if wrapping
WithWrapDecision(phases, wrapMethod, smoke2Start) ==
  IF wrapMethod # "NONE"
    THEN Unshift(phases,
           [name          |-> PHASE_NAMES.WRAP_DECISION,
            startTime     |-> smoke2Start,
            endTime       |-> smoke2Start,
            durationRange |-> [min |-> 0, max |-> 0],
            confidence    |-> PHASE_CONFIDENCE[PHASE_NAMES.WRAP_DECISION],
            notes         |-> <<"Wrap when internal temp reaches",
                                STALL_CONFIG.startTempF, STALL_CONFIG.endTempF>>])
    ELSE phases

\* lines 257-272: the Stall Window, ending where Smoke Phase 2 starts
WithStall(phases, stallDuration, smoke2Start) ==
  IF stallDuration # Null
    THEN LET stallEnd   == smoke2Start
             stallStart == MinutesBefore(stallEnd, stallDuration.max)
         IN  Unshift(phases,
               [name          |-> PHASE_NAMES.STALL,
                startTime     |-> stallStart,
                endTime       |-> stallEnd,
                durationRange |-> stallDuration,
                confidence    |-> PHASE_CONFIDENCE[PHASE_NAMES.STALL],
                notes         |-> <<"High variance - internal temp plateaus at",
                                    STALL_CONFIG.startTempF, STALL_CONFIG.endTempF>>])
    ELSE phases

\* mutant: the Wrap Decision marker is placed in front of the Stall Window
StallBlock_WrapBeforeStall(phases, smoke2Duration, smoke2End, stallDuration, wrapMethod) ==
  IF smoke2Duration.min > 0
    THEN LET smoke2Start == MinutesBefore(smoke2End, smoke2Duration.max)
             p1 == WithSmoke2(phases, smoke2Duration, smoke2Start, smoke2End, wrapMethod)
             p2 == WithStall(p1, stallDuration, smoke2Start)
         IN  WithWrapDecision(p2, wrapMethod, smoke2Start)
    ELSE phases

\* lines 228-273: the phases placed between Smoke Phase 1 and Rest
StallBlock(phases, smoke2Duration, smoke2End, stallDuration, wrapMethod) ==
  IF smoke2Duration.min > 0
    THEN LET smoke2Start == MinutesBefore(smoke2End, smoke2Duration.max)
             p1 == WithSmoke2(phases, smoke2Duration, smoke2Start, smoke2End, wrapMethod)
             p2 == WithWrapDecision(p1, wrapMethod, smoke2Start)
         IN  WithStall(p2, stallDuration, smoke2Start)
    ELSE phases

\* mutant: Smoke Phase 1 always ends where Rest starts
Smoke1End_Stale(phases, smoke2End) == smoke2End

\* line 276: phases[0]?.startTime || smoke2End
Smoke1End(phases, smoke2End) ==
  IF Len(phases) > 0 THEN phases[1].startTime ELSE smoke2End

\* lines 275-314: Smoke Phase 1, Preheat Smoker and Prep & Trim
LeadingPhases(phases, smoke1Duration, smoke2End, smokerTempF, objects) ==
  LET smoke1End    == Smoke1End(phases, smoke2End)
      smoke1Start  == MinutesBefore(smoke1End, smoke1Duration.max)
      p1 == Unshift(phases,
              [name          |-> PHASE_NAMES.SMOKE_1,
               startTime     |-> smoke1Start,
               endTime       |-> smoke1End,
               durationRange |-> smoke1Duration,
               confidence    |-> PHASE_CONFIDENCE[PHASE_NAMES.SMOKE_1],
               notes         |-> <<"Smoke at", smokerTempF>>])
      preheatEnd   == smoke1Start
      preheatStart == MinutesBefore(preheatEnd, objects.PREHEAT_TIME_MINUTES.max)
      p2 == Unshift(p1,
              [name          |-> PHASE_NAMES.PREHEAT,
               startTime     |-> preheatStart,
               endTime       |-> preheatEnd,
               durationRange |-> objects.PREHEAT_TIME_MINUTES,
               confidence    |-> PHASE_CONFIDENCE[PHASE_NAMES.PREHEAT],
               notes         |-> <<"Preheat smoker to", smokerTempF>>])
      prepEnd      == preheatStart
      prepStart    == MinutesBefore(prepEnd, objects.PREP_TIME_MINUTES.max)
  IN  Unshift(p2,
        [name          |-> PHASE_NAMES.PREP,
         startTime     |-> prepStart,
         endTime       |-> prepEnd,
         durationRange |-> objects.PREP_TIME_MINUTES,
         confidence    |-> PHASE_CONFIDENCE[PHASE_NAMES.PREP],
         notes         |-> <<"Trim fat, apply rub, bring to room temperature">>])

\* mutant: the finish time is taken at the end of Rest
PredictedFinishTime_RestEnd(rest) == rest.endTime

\* line 200: const predictedFinishTime = restStart
PredictedFinishTime(rest) == rest.startTime

\* lines 316-319
TotalVarianceMinutes(cookTimeRange, stallDuration) ==
  (cookTimeRange.max - cookTimeRange.min)
    + (IF stallDuration # Null THEN stallDuration.max - stallDuration.min ELSE 0)

\* mutant: each side of the range is the whole variance
ConfidenceRange_WholeVariance(predictedFinishTime, totalVarianceMinutes) ==
  [earliest |-> predictedFinishTime - totalVarianceMinutes * 60000,
   latest   |-> predictedFinishTime + totalVarianceMinutes * 60000]

\* mutant: the two bounds are exchanged
ConfidenceRange_Swapped(predictedFinishTime, totalVarianceMinutes) ==
  [earliest |-> predictedFinishTime + totalVarianceMinutes * 30000,
   latest   |-> predictedFinishTime - totalVarianceMinutes * 30000]

\* lines 321-328
ConfidenceRange(predictedFinishTime, totalVarianceMinutes) ==
  [earliest |-> predictedFinishTime - totalVarianceMinutes * 30000,
   latest   |-> predictedFinishTime + totalVarianceMinutes * 30000]

\* mutant: the order index counts from 1
AssignOrder_OneBased(phases) ==
  [i \in 1..Len(phases) |-> phases[i] @@ [order |-> i]]

\* lines 333-336: phases.forEach((phase, index) => phase.order = index)
AssignOrder(phases) ==
  [i \in 1..Len(phases) |-> phases[i] @@ [order |-> i - 1]]

\* lines 148-345, reading the module-level objects PREP_TIME_MINUTES,
\* PREHEAT_TIME_MINUTES and REST_TIME_MINUTES as they are when it is called
generateCookPlanWith(in, objects) ==
  LET cookTimeRange    == calculateBaseCookTime(in.meatCut, in.weightLbs, in.smokerType,
                                                in.wrapMethod, in.ambientTempF, in.altitude)
      stallDuration    == calculateStallDuration(in.meatCut, in.wrapMethod)
      currentTime      == in.serveTime
      serveWindowStart == currentTime - 30 * 60000
      restTime         == objects.REST_TIME_MINUTES[in.meatCut]
      rest             == RestPhase(restTime, serveWindowStart)
      phases0          == Unshift(<<>>, rest)
      predictedFinishTime == PredictedFinishTime(rest)
      hasPrimaryStall  == hasStall(in.meatCut)
      smoke2End        == rest.startTime
      dur              == SmokeDurations(hasPrimaryStall, stallDuration, cookTimeRange)
      phases1          == StallBlock(phases0, dur.smoke2, smoke2End, stallDuration, in.wrapMethod)
      phases2          == LeadingPhases(phases1, dur.smoke1, smoke2End, in.smokerTempF, objects)
      totalVarianceMinutes == TotalVarianceMinutes(cookTimeRange, stallDuration)
  IN  [phases               |-> AssignOrder(phases2),
       predictedFinishTime  |-> predictedFinishTime,
       confidenceRange      |-> ConfidenceRange(predictedFinishTime, totalVarianceMinutes),
       overallConfidence    |-> calculateOverallConfidence(phases2, in.smokerType),
       recommendedStartTime |-> phases2[1].startTime]

\* the module-level objects as the module is loaded
ModuleObjects ==
  [PREP_TIME_MINUTES    |-> PREP_TIME_MINUTES,
   PREHEAT_TIME_MINUTES |-> PREHEAT_TIME_MINUTES,
   REST_TIME_MINUTES    |-> REST_TIME_MINUTES]

\* the plan of a call that finds the module-level objects as they were loaded
generateCookPlan(in) == generateCookPlanWith(in, ModuleObjects)

\* The object a phase's durationRange field refers to.  Rest, Preheat
\* Smoker and Prep & Trim are given the module-level object itself (lines
\* 194, 298, 311); the other phases are given an object literal created by
\* the call (lines 116, 94, 209-226, 250).
NewObject == <<>>

DurationRangeRef(meatCut, name) ==
  IF name = PHASE_NAMES.REST THEN <<"REST_TIME_MINUTES", meatCut>>
  ELSE IF name = PHASE_NAMES.PREHEAT THEN <<"PREHEAT_TIME_MINUTES">>
  ELSE IF name = PHASE_NAMES.PREP THEN <<"PREP_TIME_MINUTES">>
  ELSE NewObject

\* objects after `ref[field] = v` (an assignment through a reference)
WriteThrough(objects, ref, field, v) ==
  IF ref = NewObject THEN objects
  ELSE IF ref[1] = "REST_TIME_MINUTES"
    THEN [objects EXCEPT !.REST_TIME_MINUTES[ref[2]][field] = v]
    ELSE [objects EXCEPT ![ref[1]][field] = v]

(***************************************************************************)
(* Prediction Updater                                                      *)
(***************************************************************************)
\* mutant: the span is taken from the latest bound back to the start
TotalExpectedMinutes_Reversed(originalPlan) ==
  Rat(originalPlan.recommendedStartTime - originalPlan.confidenceRange.latest, 60000)

\* lines 362-365
TotalExpectedMinutes(originalPlan) ==
  Rat(originalPlan.confidenceRange.latest - originalPlan.recommendedStartTime, 60000)

\* mutant: the thresholds are 20% instead of 10%
StatusOf_WideBand(actualProgress, expectedProgress) ==
  IF RLt(RMul(expectedProgress, Rat(12, 10)), actualProgress)
    THEN "ahead"
    ELSE IF RLt(actualProgress, RMul(expectedProgress, Rat(8, 10)))
           THEN "behind"
           ELSE "on_track"

\* lines 374-383, the branch taken
StatusOf(actualProgress, expectedProgress) ==
  IF RLt(RMul(expectedProgress, Rat(11, 10)), actualProgress)
    THEN "ahead"
    ELSE IF RLt(actualProgress, RMul(expectedProgress, Rat(9, 10)))
           THEN "behind"
           ELSE "on_track"

\* mutant: half of the gap is projected instead of 30%
TimeAdjustment_HalfGap(status, actualProgress, expectedProgress, totalExpectedMinutes) ==
  CASE status = "ahead" ->
         -MathRound(RMul(RMul(RSub(actualProgress, expectedProgress), totalExpectedMinutes),
                         Rat(5, 10)))
    [] status = "behind" ->
         MathRound(RMul(RMul(RSub(expectedProgress, actualProgress), totalExpectedMinutes),
                        Rat(5, 10)))
    [] OTHER -> 0

\* mutant: the adjustment of the 'ahead' branch is not negated
TimeAdjustment_Unsigned(status, actualProgress, expectedProgress, totalExpectedMinutes) ==
  CASE status = "ahead" ->
         MathRound(RMul(RMul(RSub(actualProgress, expectedProgress), totalExpectedMinutes),
                        Rat(3, 10)))
    [] status = "behind" ->
         MathRound(RMul(RMul(RSub(expectedProgress, actualProgress), totalExpectedMinutes),
                        Rat(3, 10)))
    [] OTHER -> 0

\* lines 374-383, the adjustment in minutes of the branch taken
TimeAdjustment(status, actualProgress, expectedProgress, totalExpectedMinutes) ==
  CASE status = "ahead" ->
         -MathRound(RMul(RMul(RSub(actualProgress, expectedProgress), totalExpectedMinutes),
                         Rat(3, 10)))
    [] status = "behind" ->
         MathRound(RMul(RMul(RSub(expectedProgress, actualProgress), totalExpectedMinutes),
                        Rat(3, 10)))
    [] OTHER -> 0

\* lines 389-394 and 398
AdjustedConfidence(overallConfidence, actualProgress, expectedProgress) ==
  LET deviationFactor    == RAbs(RSub(actualProgress, expectedProgress))
      adjustedConfidence == RMax(RInt(20),
                                 RSub(RInt(overallConfidence), RMul(deviationFactor, RInt(30))))
  IN  MathRound(adjustedConfidence)

updatePrediction(originalPlan, currentTempF, elapsedMinutes, targetTempF) ==
  LET totalExpectedMinutes == TotalExpectedMinutes(originalPlan)
      expectedProgress     == RDiv(RInt(elapsedMinutes), totalExpectedMinutes)
      actualProgress       == Rat(currentTempF, targetTempF)
      status               == StatusOf(actualProgress, expectedProgress)
      timeAdjustment       == TimeAdjustment(status, actualProgress, expectedProgress,
                                             totalExpectedMinutes)
  IN  [updatedFinishTime  |-> originalPlan.predictedFinishTime + timeAdjustment * 60000,
       adjustedConfidence |-> AdjustedConfidence(originalPlan.overallConfidence,
                                                 actualProgress, expectedProgress),
       status             |-> status]

getConfidenceLevel(score) ==
  IF score >= CONFIDENCE_THRESHOLDS.high
    THEN "HIGH"
    ELSE IF score >= CONFIDENCE_THRESHOLDS.medium THEN "MEDIUM" ELSE "LOW"

(***************************************************************************)
(* Bounds of the checked instances                                         *)
(***************************************************************************)
\* weights are taken every WeightStep tenths of a pound from the minimum
WeightStep == 115

\* ... and every tenth of a pound for FineWeights tenths above the minimum
FineWeights == 1

\* internal temperatures are taken every TempStep degrees from the minimum
TempStep == 94

\* elapsed time is taken in steps of 1/ElapsedParts of the planned total ...
ElapsedParts == 2

\* ... up to MaxElapsedK such steps
MaxElapsedK == 6

\* the serve time of the checked requests (ms)
ServeTimeMs == 600000000

\* smoker temperature of the checked requests; it only appears in notes
SmokerTempF == VALIDATION.smokerTemp.min + 50

WeightTenthsMin == MathRound(RMul(VALIDATION.weight.min, RInt(10)))

WeightTenthsMax == MathRound(RMul(VALIDATION.weight.max, RInt(10)))

Weights ==
  {Rat(t, 10) : t \in {u \in WeightTenthsMin..WeightTenthsMax :
                          \/ (u - WeightTenthsMin) % WeightStep = 0
                          \/ u <= WeightTenthsMin + FineWeights
                          \/ u = WeightTenthsMax}}

AmbientTemps ==
  {Undefined} \cup {Some(t) : t \in {ENVIRONMENTAL_THRESHOLDS.coldAmbient - 1,
                                       ENVIRONMENTAL_THRESHOLDS.coldAmbient,
                                       ENVIRONMENTAL_THRESHOLDS.hotAmbient,
                                       ENVIRONMENTAL_THRESHOLDS.hotAmbient + 1}}

Altitudes ==
  {Undefined} \cup {Some(a) : a \in {ENVIRONMENTAL_THRESHOLDS.highAltitude,
                                       ENVIRONMENTAL_THRESHOLDS.highAltitude + 1}}

\* CookPlanInput values accepted by planCookSchema
Inputs ==
  [meatCut      : MeatCut,
   weightLbs    : Weights,
   smokerType   : SmokerType,
   smokerTempF  : {SmokerTempF},
   wrapMethod   : WrapMethod,
   serveTime    : {ServeTimeMs},
   ambientTempF : AmbientTemps,
   altitude     : Altitudes]

\* the inputs of the cooks that are tracked: the extreme weights and the
\* environments that change the cook time
TrackInputs ==
  {in \in Inputs :
     /\ in.weightLbs \in {VALIDATION.weight.min, VALIDATION.weight.max}
     /\ in.ambientTempF \in {Undefined,
                              Some(ENVIRONMENTAL_THRESHOLDS.coldAmbient - 1),
                              Some(ENVIRONMENTAL_THRESHOLDS.hotAmbient + 1)}
     /\ in.altitude \in {Undefined, Some(ENVIRONMENTAL_THRESHOLDS.highAltitude + 1)}}

CurrentTemps ==
  {t \in VALIDATION.internalTemp.min..VALIDATION.internalTemp.max :
     (t - VALIDATION.internalTemp.min) % TempStep = 0} \cup {VALIDATION.internalTemp.max}

TargetTemps(meatCut) ==
  {targetTempFRange.min, DEFAULT_TARGET_TEMPS[meatCut], targetTempFRange.max}

\* whole minutes: k/ElapsedParts of the planned total, and the minutes next
\* to the two status thresholds actual = 1.1 * expected and actual = 0.9 * expected
ElapsedChoices(p, currentTempF, targetTempF) ==
  LET total == TotalExpectedMinutes(p)
      a     == Rat(currentTempF, targetTempF)
      hi    == MathRound(RDiv(RMul(a, total), Rat(11, 10)))
      lo    == MathRound(RDiv(RMul(a, total), Rat(9, 10)))
  IN  {MathRound(RMul(total, Rat(k, ElapsedParts))) : k \in 0..MaxElapsedK}
        \cup {hi - 1, hi, lo, lo + 1}

NoPlan == <<>>

NoInput == <<>>

NoReading == <<>>

NoPrediction == <<>>

(***************************************************************************)
(* Initial state of the services around the engine                         *)
(***************************************************************************)
\* calls of queueTempReading that can be in progress at the same time
MaxQueueCalls == 2

\* readings handed to queueTempReading in one run
MaxReadings == 3

QueueCalls == 1..MaxQueueCalls

\* OfflineService after construction (lines 25-31) with nothing stored:
\* store is the item offline:pending_temps (absent reads as the empty list),
\* sync and calls are the positions and locals of the asynchronous calls
\* in progress, queued and delivered record what was handed in and what
\* the API accepted
OfflineInit ==
  [isOnline       |-> TRUE,
   syncInProgress |-> FALSE,
   store          |-> <<>>,
   sync           |-> [pc |-> "idle", pendingTemps |-> <<>>, remainingTemps |-> <<>>, next |-> 1],
   calls          |-> [c \in QueueCalls |-> [pc |-> "idle", existing |-> <<>>, reading |-> 0]],
   queued         |-> {},
   delivered      |-> {}]

\* log-temperature requests for one cook that are handled at the same time
MaxLogRequests == 2

LogRequests == 1..MaxLogRequests

CookStatus == {"PLANNED", "ACTIVE", "RESTING", "COMPLETED", "CANCELLED"}

API_LIMITS ==
  [maxTempReadingsPerCook |-> 500,
   maxChatMessagesPerCook |-> 100,
   maxEquipmentPerUser    |-> 10,
   defaultPageSize        |-> 20,
   maxPageSize            |-> 100]

\* a cook as POST /api/cooks creates it, without readings: tempReadings is
\* the number of its TempReading rows, requests the position of each
\* log-temperature request in progress, addedWhenClosed whether a row was
\* ever created while the status was neither ACTIVE nor RESTING
CookLogInit ==
  [status          |-> "PLANNED",
   tempReadings    |-> 0,
   requests        |-> [r \in LogRequests |-> "idle"],
   addedWhenClosed |-> FALSE]

\* equipment records created for the user in one run
MaxEquipmentCreated == 4

EquipmentIds == 1..MaxEquipmentCreated

\* the equipment table of a user without equipment: rows maps an id to
\* "absent", "plain" (isDefault = false) or "default" (isDefault = true);
\* ids are given in the order of createdAt; last is the request handled last
EquipmentInit ==
  [rows   |-> [id \in EquipmentIds |-> "absent"],
   nextId |-> 1,
   last   |-> "none"]

\* the services are as they are set up, and stay so while the engine is
\* looked at on its own
AppIdle ==
  /\ offline = OfflineInit
  /\ cookLog = CookLogInit
  /\ equipment = EquipmentInit

\* no plan is requested or tracked while a service is looked at on its own
EngineIdle ==
  /\ pc = "idle"
  /\ input = NoInput
  /\ plan = NoPlan
  /\ prevInput = NoInput
  /\ prevPlan = NoPlan
  /\ reading = NoReading
  /\ prediction = NoPrediction
  /\ tables = ModuleObjects

(***************************************************************************)
(* Offline queue of the mobile app (services/offline.ts): SpecOffline      *)
(* JavaScript runs each call up to its next await without interruption;    *)
(* every action below is one such stretch.                                 *)
(***************************************************************************)
InitOffline ==
  /\ EngineIdle
  /\ offline = OfflineInit
  /\ cookLog = CookLogInit
  /\ equipment = EquipmentInit

\* lines 37-50: NetInfo reports the connectivity; on coming back online
\* syncPendingData is called, which runs to its first await (lines 193-202)
NetInfoEvent(isConnected) ==
  /\ isConnected # offline.isOnline
  /\ offline' =
       IF isConnected /\ ~offline.syncInProgress
         THEN [offline EXCEPT !.isOnline = TRUE,
                              !.syncInProgress = TRUE,
                              !.sync = [pc |-> "read", pendingTemps |-> <<>>,
                                        remainingTemps |-> <<>>, next |-> 1]]
         ELSE [offline EXCEPT !.isOnline = isConnected]
  /\ UNCHANGED <<engineVars, cookLog, equipment>>

\* lines 117-118: queueTempReading is called with a new reading and its
\* getPendingTempReadings reads the stored list
QueueTempReadingGet(c) ==
  /\ offline.calls[c].pc = "idle"
  /\ Cardinality(offline.queued) < MaxReadings
  /\ LET r == Cardinality(offline.queued) + 1
     IN  offline' = [offline EXCEPT !.calls[c] = [pc |-> "push", existing |-> offline.store,
                                                  reading |-> r],
                                    !.queued = @ \cup {r}]
  /\ UNCHANGED <<engineVars, cookLog, equipment>>

\* lines 128-132: the reading is pushed onto the list that was read and
\* the list is stored
QueueTempReadingSet(c) ==
  /\ offline.calls[c].pc = "push"
  /\ offline' = [offline EXCEPT !.store = Append(offline.calls[c].existing,
                                                 offline.calls[c].reading),
                                !.calls[c] = [pc |-> "idle", existing |-> <<>>, reading |-> 0]]
  /\ UNCHANGED <<engineVars, cookLog, equipment>>

\* lines 202-213 and 250-252: the sync reads the stored list; an empty list
\* ends the sync
SyncGetPending ==
  /\ offline.sync.pc = "read"
  /\ offline' =
       IF Len(offline.store) = 0
         THEN [offline EXCEPT !.syncInProgress = FALSE,
                              !.sync = [pc |-> "idle", pendingTemps |-> <<>>,
                                        remainingTemps |-> <<>>, next |-> 1]]
         ELSE [offline EXCEPT !.sync = [pc |-> "send", pendingTemps |-> offline.store,
                                        remainingTemps |-> <<>>, next |-> 1]]
  /\ UNCHANGED <<engineVars, cookLog, equipment>>

\* lines 215-229: api.logTemp of the next pending reading answers; a
\* failure or an exception keeps the reading for the next sync
SyncLogTemp(success) ==
  /\ offline.sync.pc = "send"
  /\ LET pending == offline.sync.pendingTemps[offline.sync.next]
         last    == offline.sync.next = Len(offline.sync.pendingTemps)
     IN  offline' =
           [offline EXCEPT
              !.delivered = IF success THEN @ \cup {pending} ELSE @,
              !.sync.remainingTemps = IF success THEN @ ELSE Append(@, pending),
              !.sync.next = @ + 1,
              !.sync.pc = IF last THEN "write" ELSE "send"]
  /\ UNCHANGED <<engineVars, cookLog, equipment>>

\* lines 231-239: the stored list is replaced by the readings that remain
\* (setItem), or removed when none remains
SyncStoreRemaining ==
  /\ offline.sync.pc = "write"
  /\ offline' = [offline EXCEPT !.store = offline.sync.remainingTemps,
                                !.sync.pc = "finish"]
  /\ UNCHANGED <<engineVars, cookLog, equipment>>

\* lines 241-254: the sync time is stored and the sync ends
SyncFinish ==
  /\ offline.sync.pc = "finish"
  /\ offline' = [offline EXCEPT !.syncInProgress = FALSE,
                                !.sync = [pc |-> "idle", pendingTemps |-> <<>>,
                                          remainingTemps |-> <<>>, next |-> 1]]
  /\ UNCHANGED <<engineVars, cookLog, equipment>>

NextOffline ==
  \/ \E isConnected \in BOOLEAN : NetInfoEvent(isConnected)
  \/ \E c \in QueueCalls : QueueTempReadingGet(c)
  \/ \E c \in QueueCalls : QueueTempReadingSet(c)
  \/ SyncGetPending
  \/ \E success \in BOOLEAN : SyncLogTemp(success)
  \/ SyncStoreRemaining
  \/ SyncFinish

SpecOffline == InitOffline /\ [][NextOffline]_vars

(***************************************************************************)
(* Temperature log of a cook (PUT /api/cooks/:id/temp): SpecTempLog        *)
(* Each action is one database call of a request with the code that        *)
(* follows it up to the next await.                                        *)
(***************************************************************************)
InitTempLog ==
  /\ EngineIdle
  /\ offline = OfflineInit
  /\ cookLog = CookLogInit
  /\ equipment = EquipmentInit

\* routes/cooks.ts 321-378: PUT /api/cooks/:id stores the status it is given
UpdateCookStatus(status) ==
  /\ status # cookLog.status
  /\ cookLog' = [cookLog EXCEPT !.status = status]
  /\ UNCHANGED <<engineVars, offline, equipment>>

\* lines 482-502: the cook is read with the count of its readings; the
\* request goes on only for an ACTIVE or RESTING cook below the limit
LogTempFind(r) ==
  /\ cookLog.requests[r] = "idle"
  /\ cookLog.status \in {"ACTIVE", "RESTING"}
  /\ cookLog.tempReadings < API_LIMITS.maxTempReadingsPerCook
  /\ cookLog' = [cookLog EXCEPT !.requests[r] = "create"]
  /\ UNCHANGED <<engineVars, offline, equipment>>

\* lines 506-519: the reading is created
LogTempCreate(r) ==
  /\ cookLog.requests[r] = "create"
  /\ cookLog' = [cookLog EXCEPT
                   !.tempReadings = @ + 1,
                   !.requests[r] = "idle",
                   !.addedWhenClosed = @ \/ cookLog.status \notin {"ACTIVE", "RESTING"}]
  /\ UNCHANGED <<engineVars, offline, equipment>>

NextTempLog ==
  \/ \E status \in CookStatus : UpdateCookStatus(status)
  \/ \E r \in LogRequests : LogTempFind(r)
  \/ \E r \in LogRequests : LogTempCreate(r)

SpecTempLog == InitTempLog /\ [][NextTempLog]_vars

(***************************************************************************)
(* Equipment of a user (routes/equipment.ts): SpecEquipment                *)
(* Each request runs to completion before the next begins.                 *)
(***************************************************************************)
InitEquipment ==
  /\ EngineIdle
  /\ offline = OfflineInit
  /\ cookLog = CookLogInit
  /\ equipment = EquipmentInit

EquipmentCount(rows) == Cardinality({id \in DOMAIN rows : rows[id] # "absent"})

\* updateMany({where: {userId, isDefault: true}, data: {isDefault: false}})
UnsetDefaults(rows) ==
  [id \in DOMAIN rows |-> IF rows[id] = "default" THEN "plain" ELSE rows[id]]

\* mutant: the defaults of the user are left as they are
CreatedRows_KeepsDefaults(rows, id, isDefault) ==
  LET count           == EquipmentCount(rows)
      shouldBeDefault == isDefault \/ count = 0
  IN  [rows EXCEPT ![id] = IF shouldBeDefault THEN "default" ELSE "plain"]

\* lines 89-111: the rows after the create of row id
CreatedRows(rows, id, isDefault) ==
  LET count           == EquipmentCount(rows)
      rows1           == IF isDefault THEN UnsetDefaults(rows) ELSE rows
      shouldBeDefault == isDefault \/ count = 0
  IN  [rows1 EXCEPT ![id] = IF shouldBeDefault THEN "default" ELSE "plain"]

\* lines 76-120: POST /api/equipment; isDefault absent behaves as false
CreateEquipment(isDefault) ==
  /\ equipment.nextId <= MaxEquipmentCreated
  /\ equipment' =
       IF EquipmentCount(equipment.rows) >= API_LIMITS.maxEquipmentPerUser
         THEN [equipment EXCEPT !.last = "rejected"]
         ELSE [rows   |-> CreatedRows(equipment.rows, equipment.nextId, isDefault),
               nextId |-> equipment.nextId + 1,
               last   |-> "create"]
  /\ UNCHANGED <<engineVars, offline, cookLog>>

\* lines 140-159: the rows after the update of the existing row id;
\* isDefault is Undefined, Some(TRUE) or Some(FALSE)
UpdatedRows(rows, id, isDefault) ==
  LET rows1 == IF isDefault = Some(TRUE) /\ rows[id] # "default"
                 THEN UnsetDefaults(rows)
                 ELSE rows
  IN  IF isDefault = Undefined
        THEN rows1
        ELSE [rows1 EXCEPT ![id] = IF isDefault[1] THEN "default" ELSE "plain"]

\* lines 126-168: PUT /api/equipment/:id
UpdateEquipment(id, isDefault) ==
  /\ equipment' =
       IF equipment.rows[id] = "absent"
         THEN [equipment EXCEPT !.last = "not found"]
         ELSE [equipment EXCEPT !.rows = UpdatedRows(equipment.rows, id, isDefault),
                                !.last = "update"]
  /\ UNCHANGED <<engineVars, offline, cookLog>>

\* lines 188-205: the rows after the delete of the existing row id; when it
\* was the default, the oldest remaining row becomes the default
RowsAfterDelete(rows, id) ==
  LET rows1     == [rows EXCEPT ![id] = "absent"]
      remaining == {i \in DOMAIN rows1 : rows1[i] # "absent"}
  IN  IF rows[id] = "default" /\ remaining # {}
        THEN LET firstEquipment == CHOOSE i \in remaining : \A j \in remaining : i <= j
             IN  [rows1 EXCEPT ![firstEquipment] = "default"]
        ELSE rows1

\* lines 174-214: DELETE /api/equipment/:id
DeleteEquipment(id) ==
  /\ equipment' =
       IF equipment.rows[id] = "absent"
         THEN [equipment EXCEPT !.last = "not found"]
         ELSE [equipment EXCEPT !.rows = RowsAfterDelete(equipment.rows, id),
                                !.last = "delete"]
  /\ UNCHANGED <<engineVars, offline, cookLog>>

NextEquipment ==
  \/ \E isDefault \in BOOLEAN : CreateEquipment(isDefault)
  \/ \E id \in EquipmentIds, isDefault \in {Undefined, Some(TRUE), Some(FALSE)} :
       UpdateEquipment(id, isDefault)
  \/ \E id \in EquipmentIds : DeleteEquipment(id)

SpecEquipment == InitEquipment /\ [][NextEquipment]_vars

(***************************************************************************)
(* Plan requests (POST /api/cooks/plan): Spec                              *)
(***************************************************************************)
Init ==
  /\ AppIdle
  /\ pc = "request"
  /\ input \in Inputs
  /\ plan = NoPlan
  /\ prevInput = NoInput
  /\ prevPlan = NoPlan
  /\ reading = NoReading
  /\ prediction = NoPrediction
  /\ tables = ModuleObjects

\* the plan of the request is generated and returned
PlanCook ==
  /\ pc = "request"
  /\ plan' = generateCookPlanWith(input, tables)
  /\ pc' = "planned"
  /\ UNCHANGED <<input, prevInput, prevPlan, reading, prediction, tables>>
  /\ UNCHANGED appVars

\* the weight is changed and a new plan is requested; the previous request
\* and its plan are kept for comparison
ChangeWeight(w) ==
  /\ pc = "planned"
  /\ w # input.weightLbs
  /\ input' = [input EXCEPT !.weightLbs = w]
  /\ plan' = generateCookPlanWith(input', tables)
  /\ prevInput' = input
  /\ prevPlan' = plan
  /\ pc' = "replanned"
  /\ UNCHANGED <<reading, prediction, tables>>
  /\ UNCHANGED appVars

\* the wrap method is changed and a new plan is requested
ChangeWrapMethod(m) ==
  /\ pc = "planned"
  /\ m # input.wrapMethod
  /\ input' = [input EXCEPT !.wrapMethod = m]
  /\ plan' = generateCookPlanWith(input', tables)
  /\ prevInput' = input
  /\ prevPlan' = plan
  /\ pc' = "replanned"
  /\ UNCHANGED <<reading, prediction, tables>>
  /\ UNCHANGED appVars

Next ==
  \/ PlanCook
  \/ \E w \in Weights : ChangeWeight(w)
  \/ \E m \in WrapMethod : ChangeWrapMethod(m)

Spec == Init /\ [][Next]_vars

(***************************************************************************)
(* Live tracking of a planned cook: SpecTrack                              *)
(***************************************************************************)
InitTrack ==
  /\ AppIdle
  /\ pc = "tracking"
  /\ tables = ModuleObjects
  /\ input \in TrackInputs
  /\ plan = generateCookPlanWith(input, tables)
  /\ prevInput = NoInput
  /\ prevPlan = NoPlan
  /\ reading = NoReading
  /\ prediction = NoPrediction

\* mutant: the new finish time is stored into the plan that was passed in
UpdatePrediction_RewritesPlan(currentTempF, elapsedMinutes, targetTempF) ==
  /\ pc \in {"tracking", "updated", "repeated"}
  /\ elapsedMinutes >= 0
  /\ reading' = [currentTempF   |-> currentTempF,
                 elapsedMinutes |-> elapsedMinutes,
                 targetTempF    |-> targetTempF]
  /\ prediction' = updatePrediction(plan, currentTempF, elapsedMinutes, targetTempF)
  /\ plan' = [plan EXCEPT !.predictedFinishTime = prediction'.updatedFinishTime]
  /\ pc' = IF pc = "tracking" THEN "updated" ELSE "repeated"
  /\ UNCHANGED <<input, prevInput, prevPlan, tables>>
  /\ UNCHANGED appVars

\* a temperature reading arrives and the prediction is refreshed; the call
\* reads originalPlan and assigns to nothing but its own locals
UpdatePrediction(currentTempF, elapsedMinutes, targetTempF) ==
  /\ pc \in {"tracking", "updated", "repeated"}
  /\ elapsedMinutes >= 0
  /\ reading' = [currentTempF   |-> currentTempF,
                 elapsedMinutes |-> elapsedMinutes,
                 targetTempF    |-> targetTempF]
  /\ prediction' = updatePrediction(plan, currentTempF, elapsedMinutes, targetTempF)
  /\ pc' = IF pc = "tracking" THEN "updated" ELSE "repeated"
  /\ UNCHANGED <<input, plan, prevInput, prevPlan, tables>>
  /\ UNCHANGED appVars

NextTrack ==
  /\ pc = "tracking"
  /\ \E t \in CurrentTemps, g \in TargetTemps(input.meatCut) :
       \E e \in ElapsedChoices(plan, t, g) : UpdatePrediction(t, e, g)

SpecTrack == InitTrack /\ [][NextTrack]_vars

(***************************************************************************)
(* Several readings of one tracked cook: SpecRepeat                        *)
(***************************************************************************)
\* the cooks that receive several readings: one smoker, no environment
RepeatInputs ==
  {in \in TrackInputs :
     /\ in.smokerType = "PELLET"
     /\ in.ambientTempF = Undefined
     /\ in.altitude = Undefined}

\* prevInput and prevPlan keep the request and its plan as they are before
\* the first reading
InitRepeat ==
  /\ AppIdle
  /\ pc = "tracking"
  /\ tables = ModuleObjects
  /\ input \in RepeatInputs
  /\ plan = generateCookPlanWith(input, tables)
  /\ prevInput = input
  /\ prevPlan = plan
  /\ reading = NoReading
  /\ prediction = NoPrediction

\* readings against the default target of the cut, any number of times
NextRepeat ==
  \E t \in CurrentTemps :
    \E e \in ElapsedChoices(plan, t, DEFAULT_TARGET_TEMPS[input.meatCut]) :
      UpdatePrediction(t, e, DEFAULT_TARGET_TEMPS[input.meatCut])

SpecRepeat == InitRepeat /\ [][NextRepeat]_vars

(***************************************************************************)
(* A caller that keeps a returned plan and assigns to it: SpecShare        *)
(***************************************************************************)
\* the requests whose plans are kept: one smoker, no environment
ShareInputs ==
  {in \in TrackInputs :
     /\ in.smokerType = "PELLET"
     /\ in.ambientTempF = Undefined
     /\ in.altitude = Undefined}

\* the minutes a caller assigns to a field of a duration range
AssignedMinutes == {0, 240}

InitShare ==
  /\ AppIdle
  /\ pc = "request"
  /\ input \in ShareInputs
  /\ plan = NoPlan
  /\ prevInput = NoInput
  /\ prevPlan = NoPlan
  /\ reading = NoReading
  /\ prediction = NoPrediction
  /\ tables = ModuleObjects

\* the caller executes plan.phases[i].durationRange[field] = v on the plan
\* it was returned; the assignment reaches the object the field refers to
AssignDurationRange(i, field, v) ==
  /\ pc = "planned"
  /\ i \in 1..Len(plan.phases)
  /\ plan' = [plan EXCEPT !.phases[i].durationRange[field] = v]
  /\ tables' = WriteThrough(tables,
                            DurationRangeRef(input.meatCut, plan.phases[i].name),
                            field, v)
  /\ pc' = "assigned"
  /\ UNCHANGED <<input, prevInput, prevPlan, reading, prediction>>
  /\ UNCHANGED appVars

\* a later request, for cut c, is planned; the first caller keeps its plan
PlanLater(c) ==
  /\ pc = "assigned"
  /\ input' = [input EXCEPT !.meatCut = c]
  /\ plan' = generateCookPlanWith(input', tables)
  /\ prevInput' = input
  /\ prevPlan' = plan
  /\ pc' = "later"
  /\ UNCHANGED <<reading, prediction, tables>>
  /\ UNCHANGED appVars

NextShare ==
  \/ PlanCook
  \/ /\ pc = "planned"
     /\ \E i \in 1..Len(plan.phases), field \in {"min", "max"}, v \in AssignedMinutes :
          AssignDurationRange(i, field, v)
  \/ \E c \in MeatCut : PlanLater(c)

SpecShare == InitShare /\ [][NextShare]_vars

(***************************************************************************)
(* Properties of the Plan Generator (checked under Spec)                   *)
(***************************************************************************)
(***************************************************************************)
(* The same cook planned under another environment: SpecEnv                *)
(***************************************************************************)
\* the requests that give neither ambient temperature nor altitude
NeutralInputs ==
  {in \in Inputs : in.ambientTempF = Undefined /\ in.altitude = Undefined}

InitEnv ==
  /\ AppIdle
  /\ pc = "request"
  /\ input \in NeutralInputs
  /\ plan = NoPlan
  /\ prevInput = NoInput
  /\ prevPlan = NoPlan
  /\ reading = NoReading
  /\ prediction = NoPrediction
  /\ tables = ModuleObjects

\* ambient temperature and altitude are given and a new plan is requested;
\* the neutral request and its plan are kept for comparison
ChangeEnvironment(ambientTempF, altitude) ==
  /\ pc = "planned"
  /\ <<ambientTempF, altitude>> # <<input.ambientTempF, input.altitude>>
  /\ input' = [input EXCEPT !.ambientTempF = ambientTempF, !.altitude = altitude]
  /\ plan' = generateCookPlanWith(input', tables)
  /\ prevInput' = input
  /\ prevPlan' = plan
  /\ pc' = "replanned"
  /\ UNCHANGED <<reading, prediction, tables>>
  /\ UNCHANGED appVars

NextEnv ==
  \/ PlanCook
  \/ \E a \in AmbientTemps, h \in Altitudes : ChangeEnvironment(a, h)

SpecEnv == InitEnv /\ [][NextEnv]_vars

Planned == plan # NoPlan

HasPhase(p, n) == \E i \in 1..Len(p.phases) : p.phases[i].name = n

StallAffected(meatCut) == meatCut \in {"BRISKET", "PORK_SHOULDER"}

\* the validated ranges of the request
ValidInput(in) ==
  /\ in.meatCut \in MeatCut /\ in.smokerType \in SmokerType /\ in.wrapMethod \in WrapMethod
  /\ RLeq(VALIDATION.weight.min, in.weightLbs) /\ RLeq(in.weightLbs, VALIDATION.weight.max)
  /\ in.ambientTempF # Undefined =>
       in.ambientTempF[1] \in VALIDATION.ambientTemp.min..VALIDATION.ambientTemp.max
  /\ in.altitude # Undefined =>
       in.altitude[1] \in VALIDATION.altitude.min..VALIDATION.altitude.max

\* C1: the phases of a returned plan are chronologically contiguous: each
\* phase ends where the next one starts, start times never decrease along
\* the list, and the last phase does not end before the first one starts.
C1_Contiguous ==
  Planned =>
    LET ph == plan.phases
    IN  /\ ValidInput(input)
        /\ \A i \in 1..(Len(ph) - 1) :
             /\ ph[i].endTime = ph[i + 1].startTime
             /\ ph[i].startTime <= ph[i + 1].startTime
        /\ ph[Len(ph)].endTime >= ph[1].startTime

\* a wrapped brisket plan at the minimum weight: seven phases, among them
\* the instantaneous Wrap Decision
C1_Witness ==
  /\ Planned
  /\ input.weightLbs = VALIDATION.weight.min
  /\ Len(plan.phases) = 7
  /\ \E i \in 1..Len(plan.phases) :
       /\ plan.phases[i].name = PHASE_NAMES.WRAP_DECISION
       /\ plan.phases[i].startTime = plan.phases[i].endTime

\* C2: the predicted finish time is the start time of the Rest phase.
C2_FinishIsRestStart ==
  Planned =>
    /\ HasPhase(plan, "Rest")
    /\ \A i \in 1..Len(plan.phases) :
         plan.phases[i].name = "Rest" => plan.predictedFinishTime = plan.phases[i].startTime

C2_Witness ==
  /\ Planned
  /\ \E i \in 1..Len(plan.phases) :
       /\ plan.phases[i].name = "Rest"
       /\ plan.phases[i].startTime < plan.phases[i].endTime
       /\ plan.predictedFinishTime = plan.phases[i].startTime

\* the total variance of the request of the current plan, in minutes
InputVariance(in) ==
  TotalVarianceMinutes(
    calculateBaseCookTime(in.meatCut, in.weightLbs, in.smokerType, in.wrapMethod,
                          in.ambientTempF, in.altitude),
    calculateStallDuration(in.meatCut, in.wrapMethod))

\* C3: the predicted finish time lies between the earliest and the latest
\* bound of the confidence range, and a bound coincides with it only when
\* the total variance is zero.
C3_FinishWithinRange ==
  Planned =>
    /\ plan.confidenceRange.earliest <= plan.predictedFinishTime
    /\ plan.predictedFinishTime <= plan.confidenceRange.latest
    /\ (\/ plan.confidenceRange.earliest = plan.predictedFinishTime
        \/ plan.confidenceRange.latest = plan.predictedFinishTime)
         => InputVariance(input) = 0

C3_Witness ==
  /\ Planned
  /\ InputVariance(input) > 0
  /\ plan.confidenceRange.earliest < plan.predictedFinishTime
  /\ plan.predictedFinishTime < plan.confidenceRange.latest

\* C4: the overall confidence is an integer between 20 and 100.
C4_ConfidenceInRange ==
  Planned => plan.overallConfidence \in 20..100

\* a plan whose unclamped score would exceed 100 (pellet smoker, one
\* Medium phase)
C4_Witness ==
  /\ Planned
  /\ input.smokerType = "PELLET"
  /\ ~StallAffected(input.meatCut)
  /\ plan.overallConfidence = 100

\* C5: the plan contains a Stall Window phase if and only if the cut is
\* brisket or pork shoulder.
C5_StallIffAffected ==
  Planned => (HasPhase(plan, "Stall Window") <=> StallAffected(input.meatCut))

\* the shortest cook of a stall-affected cut: minimum weight, pellet
\* smoker, hot ambient
C5_Witness ==
  /\ Planned
  /\ input.meatCut = "BRISKET"
  /\ input.weightLbs = VALIDATION.weight.min
  /\ input.smokerType = "PELLET"
  /\ input.ambientTempF = Some(ENVIRONMENTAL_THRESHOLDS.hotAmbient + 1)
  /\ input.altitude = Undefined
  /\ HasPhase(plan, "Stall Window")

\* C6: the plan contains a Wrap Decision phase if and only if a wrap method
\* is selected and the cut is stall-affected; a cut that is not
\* stall-affected has neither a Stall Window nor a Wrap Decision.
C6_WrapDecisionIff ==
  Planned =>
    /\ HasPhase(plan, "Wrap Decision")
         <=> (input.wrapMethod # "NONE" /\ StallAffected(input.meatCut))
    /\ ~StallAffected(input.meatCut)
         => (~HasPhase(plan, "Stall Window") /\ ~HasPhase(plan, "Wrap Decision"))

\* baby back ribs with a wrap method selected
C6_Witness ==
  /\ Planned
  /\ input.meatCut = "BABY_BACK_RIBS"
  /\ input.wrapMethod = "FOIL"
  /\ ~HasPhase(plan, "Wrap Decision")
  /\ ~HasPhase(plan, "Stall Window")

\* span from the recommended start to the predicted finish, in ms
Span(p) == p.predictedFinishTime - p.recommendedStartTime

\* the request differs from the previous one in the weight only
OnlyWeightChanged ==
  /\ pc = "replanned"
  /\ prevInput # NoInput
  /\ [prevInput EXCEPT !.weightLbs = input.weightLbs] = input
  /\ prevInput.weightLbs # input.weightLbs

\* C7: for a per-pound cut, of two plans whose requests differ in the
\* weight only, the one for the heavier weight has the span from
\* recommended start to predicted finish that is not shorter.
C7_SpanMonotoneInWeight ==
  (OnlyWeightChanged /\ input.meatCut \in {"BRISKET", "PORK_SHOULDER"}) =>
    IF RLeq(prevInput.weightLbs, input.weightLbs)
      THEN Span(prevPlan) <= Span(plan)
      ELSE Span(plan) <= Span(prevPlan)

\* two weights a tenth of a pound apart
C7_Witness ==
  /\ OnlyWeightChanged
  /\ input.meatCut = "BRISKET"
  /\ RSub(input.weightLbs, prevInput.weightLbs) = Rat(1, 10)
  /\ Span(prevPlan) <= Span(plan)

(***************************************************************************)
(* Properties of the Prediction Updater (checked under SpecTrack)          *)
(***************************************************************************)
Updated == prediction # NoPrediction

\* totalExpectedMinutes in half minutes: every timestamp of a plan is a
\* multiple of 30000 ms
TotalHalfMinutes(p) == (p.confidenceRange.latest - p.recommendedStartTime) \div 30000

\* The progress comparisons, by cross-multiplication of
\*   actualProgress   = currentTempF / targetTempF
\*   expectedProgress = 2 * elapsedMinutes / TotalHalfMinutes
ActualEqualsExpected ==
  reading.currentTempF * TotalHalfMinutes(plan)
    = 2 * reading.elapsedMinutes * reading.targetTempF

ActualAboveExpected ==
  reading.currentTempF * TotalHalfMinutes(plan)
    > 2 * reading.elapsedMinutes * reading.targetTempF

ActualBelowExpected ==
  reading.currentTempF * TotalHalfMinutes(plan)
    < 2 * reading.elapsedMinutes * reading.targetTempF

\* actualProgress > 1.1 * expectedProgress
ActualExceedsBy10Percent ==
  10 * reading.currentTempF * TotalHalfMinutes(plan)
    > 22 * reading.elapsedMinutes * reading.targetTempF

\* actualProgress < 0.9 * expectedProgress
ActualTrailsBy10Percent ==
  10 * reading.currentTempF * TotalHalfMinutes(plan)
    < 18 * reading.elapsedMinutes * reading.targetTempF

\* C8: the status is one of the three values; it is 'on_track' whenever
\* actual progress equals expected progress, 'ahead' exactly when actual
\* exceeds expected by more than 10%, 'behind' exactly when it trails by
\* more than 10%; never 'ahead' when actual <= expected and never 'behind'
\* when actual >= expected.
C8_StatusThresholds ==
  Updated =>
    /\ TotalHalfMinutes(plan) * 30000
         = plan.confidenceRange.latest - plan.recommendedStartTime
    /\ prediction.status \in {"ahead", "on_track", "behind"}
    /\ ActualEqualsExpected => prediction.status = "on_track"
    /\ prediction.status = "ahead" <=> ActualExceedsBy10Percent
    /\ prediction.status = "behind" <=> ActualTrailsBy10Percent
    /\ ~ActualAboveExpected => prediction.status # "ahead"
    /\ ~ActualBelowExpected => prediction.status # "behind"

\* a reading at which actual progress equals expected progress
C8_Witness ==
  /\ Updated
  /\ reading.elapsedMinutes > 0
  /\ ActualEqualsExpected
  /\ prediction.status = "on_track"

\* C9: 'ahead' moves the finish time strictly earlier, 'behind' strictly
\* later, 'on_track' leaves it at the predicted finish time.
C9_ShiftMatchesStatus ==
  Updated =>
    /\ prediction.status = "ahead"
         => prediction.updatedFinishTime < plan.predictedFinishTime
    /\ prediction.status = "behind"
         => prediction.updatedFinishTime > plan.predictedFinishTime
    /\ prediction.status = "on_track"
         => prediction.updatedFinishTime = plan.predictedFinishTime

\* an 'ahead' reading next to the threshold, shifted by a single minute
C9_Witness ==
  /\ Updated
  /\ reading.elapsedMinutes > 0
  /\ prediction.status = "ahead"
  /\ prediction.updatedFinishTime = plan.predictedFinishTime - 60000

\* C10: the adjusted confidence is an integer, at most the overall
\* confidence of the plan, at least 20, and lower than the overall
\* confidence by no more than 30 points.
C10_AdjustedConfidenceBounds ==
  Updated =>
    /\ prediction.adjustedConfidence \in Int
    /\ prediction.adjustedConfidence <= plan.overallConfidence
    /\ prediction.adjustedConfidence >= 20
    /\ plan.overallConfidence - prediction.adjustedConfidence <= 30

(***************************************************************************)
(* Properties of returned plans that a caller assigns to (SpecShare)       *)
(***************************************************************************)
\* C11: a returned plan shares no object with the static lookup tables or
\* with the result of another call: after a caller has assigned to a field
\* of the plan it was returned, the lookup tables are as they were loaded
\* and a later call returns the plan it returns when nobody has assigned.
C11_FreshResult ==
  /\ pc \in {"assigned", "later"} => tables = ModuleObjects
  /\ pc = "later" => plan = generateCookPlan(input)

CalledTwice == pc = "repeated" /\ reading # NoReading /\ plan = prevPlan

PhaseNamesOf(p) == [i \in 1..Len(p.phases) |-> p.phases[i].name]

\* the phase of plan p named n
PhaseNamed(p, n) == p.phases[CHOOSE i \in 1..Len(p.phases) : p.phases[i].name = n]

\* the cook-time range computed for a request
InputCookTimeRange(in) ==
  calculateBaseCookTime(in.meatCut, in.weightLbs, in.smokerType, in.wrapMethod,
                        in.ambientTempF, in.altitude)

\* C13: for a stall-affected cut without a wrap method the plan has exactly
\* the six phases Prep & Trim, Preheat Smoker, Smoke Phase 1, Stall Window,
\* Smoke Phase 2, Rest, in this order; with a wrap method it has exactly
\* seven, Wrap Decision standing between Stall Window and Smoke Phase 2.
C13_PhaseOrder ==
  (Planned /\ StallAffected(input.meatCut)) =>
    PhaseNamesOf(plan) =
      IF input.wrapMethod = "NONE"
        THEN <<"Prep & Trim", "Preheat Smoker", "Smoke Phase 1", "Stall Window",
               "Smoke Phase 2", "Rest">>
        ELSE <<"Prep & Trim", "Preheat Smoker", "Smoke Phase 1", "Stall Window",
               "Wrap Decision", "Smoke Phase 2", "Rest">>

\* a wrapped pork shoulder: seven phases
C13_Witness ==
  /\ Planned
  /\ input.meatCut = "PORK_SHOULDER"
  /\ input.wrapMethod = "BUTCHER_PAPER"
  /\ Len(plan.phases) = 7
  /\ plan.phases[5].name = "Wrap Decision"

\* the request differs from the previous one in the wrap method only
OnlyWrapChanged ==
  /\ pc = "replanned"
  /\ prevInput # NoInput
  /\ [prevInput EXCEPT !.wrapMethod = input.wrapMethod] = input
  /\ prevInput.wrapMethod # input.wrapMethod

\* C14: for a stall-affected cut, of two plans whose requests differ in the
\* wrap method only, one of them NONE, the wrapped plan's Stall Window has a
\* durationRange whose min and max are exactly half those of the unwrapped
\* plan's Stall Window.
C14_WrappedStallIsHalf ==
  (OnlyWrapChanged /\ StallAffected(input.meatCut)) =>
    LET cur == PhaseNamed(plan, "Stall Window").durationRange
        old == PhaseNamed(prevPlan, "Stall Window").durationRange
    IN  /\ (prevInput.wrapMethod = "NONE")
             => (2 * cur.min = old.min /\ 2 * cur.max = old.max)
        /\ (input.wrapMethod = "NONE")
             => (2 * old.min = cur.min /\ 2 * old.max = cur.max)

\* a brisket first planned unwrapped, then wrapped in foil
C14_Witness ==
  /\ OnlyWrapChanged
  /\ input.meatCut = "BRISKET"
  /\ prevInput.wrapMethod = "NONE"
  /\ input.wrapMethod = "FOIL"
  /\ PhaseNamed(prevPlan, "Stall Window").durationRange.max > 0
  /\ 2 * PhaseNamed(plan, "Stall Window").durationRange.max
       = PhaseNamed(prevPlan, "Stall Window").durationRange.max

\* C15: for a cut that is not stall-affected the plan has exactly the four
\* phases Prep & Trim, Preheat Smoker, Smoke Phase 1, Rest and no Smoke
\* Phase 2; the durationRange of Smoke Phase 1 is the whole computed
\* cook-time range and its scheduled length is the max of that range.
C15_NoStallFourPhases ==
  (Planned /\ ~StallAffected(input.meatCut)) =>
    /\ PhaseNamesOf(plan) = <<"Prep & Trim", "Preheat Smoker", "Smoke Phase 1", "Rest">>
    /\ ~HasPhase(plan, "Smoke Phase 2")
    /\ plan.phases[3].durationRange = InputCookTimeRange(input)
    /\ plan.phases[3].endTime - plan.phases[3].startTime
         = InputCookTimeRange(input).max * 60000

\* spare ribs with a wrap method selected
C15_Witness ==
  /\ Planned
  /\ input.meatCut = "SPARE_RIBS"
  /\ input.wrapMethod = "FOIL"
  /\ Len(plan.phases) = 4
  /\ plan.phases[3].name = "Smoke Phase 1"
  /\ plan.phases[3].durationRange.max > plan.phases[3].durationRange.min

\* the note written at lines 239-242 when a wrap method is selected: the
\* only note of the plan generator that mentions the wrap method
NoteRecordsWrap(notes, wrapMethod) ==
  /\ Len(notes) = 2
  /\ notes[1] = "Wrapped in"
  /\ notes[2] = wrapMethod

\* C16: when a wrap method is selected for a cut that is not
\* stall-affected, the notes of one of the plan's phases record the selected
\* wrap method, and the plan has no Wrap Decision phase.
C16_WrapNotedWithoutStall ==
  (Planned /\ ~StallAffected(input.meatCut) /\ input.wrapMethod # "NONE") =>
    /\ \E i \in 1..Len(plan.phases) :
         NoteRecordsWrap(plan.phases[i].notes, input.wrapMethod)
    /\ ~HasPhase(plan, "Wrap Decision")

\* C17: the last phase of every plan is Rest and no phase is named Serve
\* Window; Rest ends exactly 30 minutes before the serve time and starts
\* the cut's lookup rest max minutes before its end, so the predicted
\* finish time precedes the serve time by at least the cut's rest minimum
\* plus 30 minutes.
C17_RestBeforeServe ==
  Planned =>
    LET last == plan.phases[Len(plan.phases)]
    IN  /\ last.name = "Rest"
        /\ ~HasPhase(plan, "Serve Window")
        /\ last.endTime = input.serveTime - 30 * 60000
        /\ last.startTime = last.endTime - REST_TIME_MINUTES[input.meatCut].max * 60000
        /\ plan.predictedFinishTime
             <= input.serveTime - (REST_TIME_MINUTES[input.meatCut].min + 30) * 60000

\* a cut whose rest max exceeds its rest min: the finish precedes the serve
\* time by more than rest min + 30 minutes
C17_Witness ==
  /\ Planned
  /\ input.meatCut = "BEEF_RIBS"
  /\ plan.phases[Len(plan.phases)].name = "Rest"
  /\ plan.predictedFinishTime
       < input.serveTime - (REST_TIME_MINUTES[input.meatCut].min + 30) * 60000

\* C18: each phase carries an order index equal to its 0-based position in
\* the phase list, the phase with order 0 is Prep & Trim, and
\* recommendedStartTime is the start time of that first phase.
C18_OrderIsPosition ==
  Planned =>
    /\ \A i \in 1..Len(plan.phases) : plan.phases[i].order = i - 1
    /\ \A i \in 1..Len(plan.phases) :
         plan.phases[i].order = 0 => plan.phases[i].name = "Prep & Trim"
    /\ \E i \in 1..Len(plan.phases) : plan.phases[i].order = 0
    /\ plan.recommendedStartTime = plan.phases[1].startTime

\* a plan of seven phases, numbered 0 to 6
C18_Witness ==
  /\ Planned
  /\ Len(plan.phases) = 7
  /\ plan.phases[1].order = 0
  /\ plan.phases[7].order = 6
  /\ plan.phases[1].name = "Prep & Trim"

\* C19: for every request at or inside the validation boundaries the
\* computed cook-time range and the durationRange of every phase satisfy
\* 0 <= min <= max, and every phase other than Wrap Decision ends strictly
\* after it starts.
C19_RangesOrdered ==
  (Planned /\ ValidInput(input)) =>
    /\ 0 <= InputCookTimeRange(input).min
    /\ InputCookTimeRange(input).min <= InputCookTimeRange(input).max
    /\ \A i \in 1..Len(plan.phases) :
         /\ 0 <= plan.phases[i].durationRange.min
         /\ plan.phases[i].durationRange.min <= plan.phases[i].durationRange.max
         /\ plan.phases[i].name # "Wrap Decision"
              => plan.phases[i].startTime < plan.phases[i].endTime

\* the shortest cook: baby back ribs at the minimum weight on a pellet
\* smoker in hot weather
C19_Witness ==
  /\ Planned
  /\ ValidInput(input)
  /\ input.meatCut = "BABY_BACK_RIBS"
  /\ input.weightLbs = VALIDATION.weight.min
  /\ input.smokerType = "PELLET"
  /\ input.ambientTempF = Some(ENVIRONMENTAL_THRESHOLDS.hotAmbient + 1)
  /\ input.altitude = Undefined
  /\ 0 < InputCookTimeRange(input).min
  /\ InputCookTimeRange(input).min < InputCookTimeRange(input).max

\* the stall minutes that count in the variance of plan p: the width of
\* its Stall Window, or 0 without one
StallWidth(p) ==
  IF HasPhase(p, "Stall Window")
    THEN PhaseNamed(p, "Stall Window").durationRange.max
           - PhaseNamed(p, "Stall Window").durationRange.min
    ELSE 0

\* C20: the confidence range is symmetric around the predicted finish time
\* and each side is half of the total variance in minutes, the total
\* variance being the width of the cook-time range plus the width of the
\* stall range (0 without a stall).
C20_RangeIsHalfVariance ==
  Planned =>
    LET cook  == InputCookTimeRange(input)
        total == (cook.max - cook.min) + StallWidth(plan)
    IN  /\ plan.confidenceRange.latest - plan.predictedFinishTime
             = plan.predictedFinishTime - plan.confidenceRange.earliest
        /\ 2 * (plan.confidenceRange.latest - plan.predictedFinishTime)
             = total * 60000

\* a stall-affected cut with an odd total variance: each side is a whole
\* number of minutes and a half
C20_Witness ==
  /\ Planned
  /\ StallAffected(input.meatCut)
  /\ ((InputCookTimeRange(input).max - InputCookTimeRange(input).min)
        + StallWidth(plan)) % 2 = 1
  /\ plan.confidenceRange.latest > plan.predictedFinishTime

(***************************************************************************)
(* Overall confidence (checked under Spec)                                 *)
(***************************************************************************)
\* C21: the smoker-type term only ever reduces the overall confidence: for
\* every smoker type the overall confidence is at most 100 less 10 for each
\* Low-confidence phase and 5 for each Medium-confidence phase of the plan.
C21_SmokerTermOnlyReduces ==
  Planned =>
    plan.overallConfidence
      <= 100 - 10 * CountConfidence(plan.phases, "LOW")
             - 5 * CountConfidence(plan.phases, "MEDIUM")

\* C26: the overall confidence of every generated plan is at least 60, so
\* the floor of 20 is not reached and getConfidenceLevel of it is not Low.
C26_ConfidenceAtLeast60 ==
  Planned =>
    /\ plan.overallConfidence >= 60
    /\ plan.overallConfidence > 20
    /\ getConfidenceLevel(plan.overallConfidence) # "LOW"

\* the lowest score: an offset smoker and a wrapped stall-affected cut
C26_Witness ==
  /\ Planned
  /\ input.smokerType = "OFFSET"
  /\ StallAffected(input.meatCut)
  /\ input.wrapMethod # "NONE"
  /\ plan.overallConfidence = 60
  /\ getConfidenceLevel(plan.overallConfidence) = "MEDIUM"

(***************************************************************************)
(* Size of the finish-time shift (checked under SpecTrack)                 *)
(***************************************************************************)
\* round(0.3 * |actualProgress - expectedProgress| * totalExpectedMinutes),
\* with |actual - expected| * total
\*   = |currentTempF * TotalHalfMinutes - 2 * elapsedMinutes * targetTempF|
\*       / (2 * targetTempF)
RoundedGapMinutes ==
  LET n == 3 * Abs(reading.currentTempF * TotalHalfMinutes(plan)
                     - 2 * reading.elapsedMinutes * reading.targetTempF)
      d == 20 * reading.targetTempF
  IN  (2 * n + d) \div (2 * d)

\* C22: at status 'ahead' the updated finish time is earlier than the
\* predicted finish time by round(0.3 * (actualProgress - expectedProgress)
\* * totalExpectedMinutes) minutes, and at status 'behind' it is later by
\* the minutes that the gap of the same size in the other direction gives,
\* totalExpectedMinutes being the span from recommendedStartTime to
\* confidenceRange.latest.
C22_ShiftIsThirtyPercentOfGap ==
  Updated =>
    /\ prediction.status = "ahead"
         => /\ ActualAboveExpected
            /\ plan.predictedFinishTime - prediction.updatedFinishTime
                 = RoundedGapMinutes * 60000
    /\ prediction.status = "behind"
         => /\ ActualBelowExpected
            /\ prediction.updatedFinishTime - plan.predictedFinishTime
                 = RoundedGapMinutes * 60000

\* a reading far ahead of schedule: the shift is more than an hour
C22_Witness ==
  /\ Updated
  /\ prediction.status = "ahead"
  /\ RoundedGapMinutes > 60
  /\ plan.predictedFinishTime - prediction.updatedFinishTime = RoundedGapMinutes * 60000

(***************************************************************************)
(* Layout of the stall-affected cook (checked under Spec)                  *)
(***************************************************************************)
\* n percent of minutes m, rounded to the nearest minute (halves up)
PercentRounded(n, m) == (2 * n * m + 100) \div 200

\* the stall range of the configuration: 60 to 240 minutes, halved when a
\* wrap method is selected
ConfiguredStallRange(wrapMethod) ==
  IF wrapMethod = "NONE"
    THEN [min |-> 60, max |-> 240]
    ELSE [min |-> 30, max |-> 120]

\* C23: for a stall-affected cut the durationRange of Smoke Phase 1 is 40%
\* and that of Smoke Phase 2 is 30% of the computed cook-time range, each
\* bound rounded to the nearest minute; the Stall Window lies between them
\* with the range of the stall configuration; a Wrap Decision, if present,
\* starts and ends where the Stall Window ends and Smoke Phase 2 starts;
\* Smoke Phase 2 ends at the start of Rest.
C23_StallLayout ==
  (Planned /\ StallAffected(input.meatCut)) =>
    LET cook   == InputCookTimeRange(input)
        smoke1 == PhaseNamed(plan, "Smoke Phase 1")
        stall  == PhaseNamed(plan, "Stall Window")
        smoke2 == PhaseNamed(plan, "Smoke Phase 2")
        rest   == PhaseNamed(plan, "Rest")
    IN  /\ smoke1.durationRange = [min |-> PercentRounded(40, cook.min),
                                   max |-> PercentRounded(40, cook.max)]
        /\ smoke2.durationRange = [min |-> PercentRounded(30, cook.min),
                                   max |-> PercentRounded(30, cook.max)]
        /\ stall.durationRange = ConfiguredStallRange(input.wrapMethod)
        /\ smoke1.endTime = stall.startTime
        /\ stall.endTime = smoke2.startTime
        /\ HasPhase(plan, "Wrap Decision")
             => /\ PhaseNamed(plan, "Wrap Decision").startTime = stall.endTime
                /\ PhaseNamed(plan, "Wrap Decision").endTime = stall.endTime
        /\ smoke2.endTime = rest.startTime

\* a wrapped brisket of 12 lb
C23_Witness ==
  /\ Planned
  /\ input.meatCut = "BRISKET"
  /\ input.weightLbs = RInt(12)
  /\ input.wrapMethod = "FOIL"
  /\ HasPhase(plan, "Wrap Decision")
  /\ PhaseNamed(plan, "Wrap Decision").startTime = PhaseNamed(plan, "Smoke Phase 2").startTime
  /\ PhaseNamed(plan, "Smoke Phase 2").durationRange.min > 0

\* minutes from the start of Smoke Phase 1 to the predicted finish time
MinutesOnHeat(p) ==
  (p.predictedFinishTime - PhaseNamed(p, "Smoke Phase 1").startTime) \div 60000

\* C27: for a stall-affected cut the time scheduled on the heat, from the
\* start of Smoke Phase 1 to the predicted finish time, is at least the
\* minimum of the computed cook-time range.
C27_HeatCoversMinimum ==
  (Planned /\ ValidInput(input) /\ StallAffected(input.meatCut)) =>
    MinutesOnHeat(plan) >= InputCookTimeRange(input).min

(***************************************************************************)
(* Environmental factor (checked under SpecEnv)                            *)
(***************************************************************************)
ColdAmbient(in) == in.ambientTempF # Undefined /\ in.ambientTempF[1] < 40

HotAmbient(in) == in.ambientTempF # Undefined /\ in.ambientTempF[1] > 90

HighAltitude(in) == in.altitude # Undefined /\ in.altitude[1] > 5000

\* the request differs from the previous, neutral one in the environment only
OnlyEnvironmentChanged ==
  /\ pc = "replanned"
  /\ prevInput \in NeutralInputs
  /\ [input EXCEPT !.ambientTempF = Undefined, !.altitude = Undefined] = prevInput

\* C24: the environmental factor is the product of an ambient factor (1.12
\* below 40 F, 0.92 above 90 F, otherwise 1) and an altitude factor (1.10
\* above 5000 ft, otherwise 1); 40 F, 90 F and 5000 ft themselves change
\* nothing; and under cold ambient or high altitude the recommended start
\* is never later than under neutral conditions, the other inputs being the
\* same.
C24_EnvironmentalFactor ==
  OnlyEnvironmentChanged =>
    LET ambientFactor  == IF ColdAmbient(input) THEN Rat(112, 100)
                          ELSE IF HotAmbient(input) THEN Rat(92, 100)
                          ELSE RInt(1)
        altitudeFactor == IF HighAltitude(input) THEN Rat(110, 100) ELSE RInt(1)
    IN  /\ ~(ColdAmbient(input) /\ HotAmbient(input))
        /\ getEnvironmentalMultiplier(input.ambientTempF, input.altitude)
             = RMul(ambientFactor, altitudeFactor)
        /\ (~ColdAmbient(input) /\ ~HotAmbient(input) /\ ~HighAltitude(input))
             => plan = prevPlan
        /\ (ColdAmbient(input) \/ HighAltitude(input))
             => plan.recommendedStartTime <= prevPlan.recommendedStartTime

\* cold ambient and high altitude together: the factor is 1.232 and the
\* recommended start moves earlier
C24_Witness ==
  /\ OnlyEnvironmentChanged
  /\ ColdAmbient(input)
  /\ HighAltitude(input)
  /\ getEnvironmentalMultiplier(input.ambientTempF, input.altitude) = Rat(1232, 1000)
  /\ plan.recommendedStartTime < prevPlan.recommendedStartTime

(***************************************************************************)
(* Divisors of the Prediction Updater (checked under SpecTrack)            *)
(***************************************************************************)
\* C25: for every generated plan totalExpectedMinutes, the span from
\* recommendedStartTime to confidenceRange.latest, is strictly positive, so
\* updatePrediction with a target temperature of the validated range
\* divides by no zero and returns a finite finish time and confidence.
C25_DivisorsPositive ==
  plan # NoPlan =>
    /\ plan.confidenceRange.latest - plan.recommendedStartTime > 0
    /\ TotalExpectedMinutes(plan)[1] > 0
    /\ TotalExpectedMinutes(plan)[2] > 0
    /\ Updated =>
         /\ reading.targetTempF \in targetTempFRange.min..targetTempFRange.max
         /\ reading.targetTempF > 0
         /\ prediction.updatedFinishTime \in Int
         /\ prediction.adjustedConfidence \in Int
         /\ prediction.status \in {"ahead", "on_track", "behind"}

\* the shortest tracked plan, updated at elapsed time 0
C25_Witness ==
  /\ Updated
  /\ input.weightLbs = VALIDATION.weight.min
  /\ input.meatCut = "BABY_BACK_RIBS"
  /\ reading.elapsedMinutes = 0
  /\ plan.confidenceRange.latest - plan.recommendedStartTime > 0
  /\ prediction.updatedFinishTime \in Int

(***************************************************************************)
(* Properties of the offline queue (SpecOffline)                           *)
(***************************************************************************)
\* no queueTempReading call and no sync is in progress
OfflineQuiet ==
  /\ offline.sync.pc = "idle"
  /\ \A c \in QueueCalls : offline.calls[c].pc = "idle"

StoredReadings == {offline.store[i] : i \in 1..Len(offline.store)}

\* C28: no queued temperature reading is lost: whatever the interleaving of
\* queueTempReading calls with a running syncPendingData, once the calls
\* and the sync have finished every reading that was queued has been
\* delivered to the API or is still in the pending store.
C28_NoReadingLost ==
  OfflineQuiet =>
    \A r \in offline.queued : r \in offline.delivered \/ r \in StoredReadings

(***************************************************************************)
(* Properties of the temperature log (SpecTempLog)                         *)
(***************************************************************************)
\* C29: the number of readings stored for a cook never exceeds
\* API_LIMITS.maxTempReadingsPerCook (500), and a reading is only ever
\* added while the status of the cook is ACTIVE or RESTING, also when
\* several log-temperature requests for the cook are handled concurrently.
C29_ReadingsWithinLimit ==
  /\ cookLog.tempReadings <= 500
  /\ ~cookLog.addedWhenClosed

(***************************************************************************)
(* Properties of the equipment of a user (SpecEquipment)                   *)
(***************************************************************************)
DefaultRows == {id \in EquipmentIds : equipment.rows[id] = "default"}

\* C30: after any sequence of equipment create, update and delete
\* requests of one user, each run to completion, at most one of the user's
\* equipment records has isDefault = true.
C30_AtMostOneDefault == Cardinality(DefaultRows) <= 1

\* the default was deleted and the oldest of the remaining records, which
\* was not the default before, took its place
C30_Witness ==
  /\ equipment.last = "delete"
  /\ EquipmentCount(equipment.rows) >= 2
  /\ Cardinality(DefaultRows) = 1
  /\ equipment.rows[1] = "absent"
====
